---------------------------- MODULE Spec2Model ----------------------------
(***************************************************************************)
(* The dimensioning layer of the furniture-photo studio: the React         *)
(* component DimensioningLayer (src/unnamed/part_004) as a state machine.  *)
(* Its useState cells are the variables, its event handlers the actions.   *)
(*                                                                         *)
(* Numbers.  Coordinates are the canonical SVG user-space coordinates.     *)
(* The source computes with IEEE doubles; the model computes with exact    *)
(* reals.  An offset is a real of the form  num / (2 * sqrt(lenSq)),       *)
(* stored as the record [num, lenSq] (see calculateOffset).                *)
(*                                                                         *)
(* Text.  A label is a sequence of one-character strings, so that          *)
(* String.prototype.trim can be modelled by what it does.                  *)
(***************************************************************************)
EXTENDS Integers, Sequences, FiniteSets, TLC

VARIABLES
    dimensions,        \* useState<Dimension[]>([])               line 32
    drawingState,      \* useState<DrawingState>('idle')          line 33
    firstPoint,        \* useState<{x,y} | null>(null)            line 34
    secondPoint,       \* useState<{x,y} | null>(null)            line 35
    offsetPoint,       \* useState<{x,y} | null>(null)            line 36
    labelInput,        \* useState('')                            line 37
    isShiftPressed,    \* useState(false)                         line 38
    dimensionHistory,  \* useState<Dimension[][]>([])             line 39
    now,               \* the value Date.now() returns            line 160
    clicks,            \* history variable: the canonical locations of the
                       \* canvas clicks of the workflow in progress
    \* EditorView, the parent of the layer (EditorView.tsx)
    mode,                 \* useState<EditorMode>('OBJECT')       line 67
    currentImage,         \* useState(initialImage || null)       line 69
    isometricImage,       \* useState<string | null>(null)        line 73
    orthographicViews,    \* useState<{front, side} | null>(null) line 74
    showTechnicalExport,  \* useState(false)                      line 75
    exportDimensions,     \* useState<Dimension[]>([])            line 76
    generationStatus,     \* 'idle' | 'generating'
    orthoRequests,        \* the images whose generateOrthographicViews
                          \* promise is pending, line 593
    effectPending,        \* the layer's effect of lines 71-73 is scheduled
    exportSource,         \* history variable: the image the Dimensions of
                          \* exportDimensions were drawn on
    imageHistory,         \* useState<ImageVariation[]>([])       line 88
    \* geminiService.ts
    retry                 \* one call of withRetry: its parameters in the
                          \* invocation that runs, where that stands, and
                          \* what the call has done so far

layerVars == <<dimensions, drawingState, firstPoint, secondPoint, offsetPoint,
               labelInput, isShiftPressed, dimensionHistory, now, clicks>>

editorVars == <<mode, currentImage, isometricImage, orthographicViews,
                showTechnicalExport, generationStatus, orthoRequests>>

vars == <<layerVars, editorVars, exportDimensions, effectPending,
          exportSource, imageHistory, retry>>

---------------------------------------------------------------------------
(* Bounds of the model *)

\* commits are accepted while the list is shorter than this
MaxDims == 2

\* the clock stops advancing here
MaxClock == 2

\* images get the ids 1 .. MaxImages
MaxImages == 22

\* withRetry is called with 0 .. MaxRetries retries
MaxRetries == 3

(* Program constants: the props EditorView passes to the layer *)

width == 1974

height == 1711

isActive == TRUE

currentTool == "draw"

\* calculateOffset's result for a zero-length segment
DefaultOffset == 50

---------------------------------------------------------------------------
(* Inputs of the environment *)

\* pointer positions in SVG user space (clientX/clientY through the inverse
\* screen CTM), before clamping; the second lies right of the canvas
Pointers == { <<10, 10>>, <<2000, 60>> }

\* texts the user can leave in the label input: empty, blank, a label
LabelTexts == { <<>>, <<" ">>, <<"5", "0", "m", "m">> }

\* KeyboardEvent.key values delivered to the window listeners
Keys == { "Shift", "Escape", "z", "Enter" }

\* the images of the image history, by identity; an image generated from
\* one of them counts as that image
imgA == [id |-> "imgA"]

imgB == [id |-> "imgB"]

Images == { imgA, imgB }

\* ImageVariation.snapshotType, "none" for undefined
SnapshotTypes == { "none", "pre-sketch", "pre-object" }

\* type EditorMode, EditorView.tsx line 30
EditorModes == { "UPLOAD", "OBJECT", "SKETCH", "BLUEPRINT", "FINAL" }

\* pointer positions for the pointer-geometry specification: two on the
\* canvas on one diagonal (|dx| = |dy|), one beyond the right and top edges,
\* one beyond the left and bottom edges
WidePointers == { <<10, 10>>, <<60, 60>>, <<2000, -5>>, <<-5, 1800>> }

\* pointer positions for the offset-geometry specification: the ends of a
\* horizontal, a vertical and a diagonal segment, and points on their
\* perpendicular bisectors on either side
GridPointers ==
    { <<10, 10>>, <<30, 10>>, <<10, 30>>,
      <<20, 4>>, <<20, 25>>, <<3, 20>>, <<16, 20>> }

---------------------------------------------------------------------------
(* Values *)

\* JavaScript null for the three optional points
null == [isNull |-> TRUE]

Point(px, py) == [x |-> px, y |-> py]

Abs(n) == IF n < 0 THEN -n ELSE n

Min(a, b) == IF a < b THEN a ELSE b

Max(a, b) == IF a > b THEN a ELSE b

Last(s) == s[Len(s)]

Front(s) == SubSeq(s, 1, Len(s) - 1)

IsSpace(c) == c = " "

\* String.prototype.trim: strip white space from both ends
RECURSIVE TrimStart(_)
TrimStart(s) ==
    IF s # <<>> /\ IsSpace(Head(s)) THEN TrimStart(Tail(s)) ELSE s

RECURSIVE TrimEnd(_)
TrimEnd(s) ==
    IF s # <<>> /\ IsSpace(Last(s)) THEN TrimEnd(Front(s)) ELSE s

Trim(s) == TrimEnd(TrimStart(s))

\* the pointer in SVG user space without the clamp of lines 82-85
getScaledCoordinatesUnclamped(p) == Point(p[1], p[2])

\* getScaledCoordinates: the pointer in SVG user space, clamped to the canvas
getScaledCoordinates(p) ==
    Point(Max(0, Min(width, p[1])), Max(0, Min(height, p[2])))

\* normalX, normalY of lines 140-141, 218-219 and TechnicalDrawingExport.tsx
\* lines 298-299 without the rounding of floating point: the vector
\* (nx, ny) / sqrt(lenSq)
normalAlongSegment(dx, dy) ==
    [nx |-> dx, ny |-> dy, lenSq |-> dx * dx + dy * dy]

normal(dx, dy) ==
    [nx |-> -dy, ny |-> dx, lenSq |-> dx * dx + dy * dy]

\* the offset measured against the opposite normal (dy/len, -dx/len)
calculateOffsetMirrored(fp, sp, op) ==
    LET dx == sp.x - fp.x
        dy == sp.y - fp.y
        lenSq == dx * dx + dy * dy
    IN  IF lenSq = 0
        THEN [num |-> 2 * 50, lenSq |-> 1]
        ELSE [num |-> (2 * op.x - (fp.x + sp.x)) * dy
                       + (2 * op.y - (fp.y + sp.y)) * (-dx),
              lenSq |-> lenSq]

\* calculateOffset(fp, sp, op): dot(op - midpoint, normal), normal =
\* (-dy/len, dx/len).  With mid = (fp + sp)/2 this is
\*   ((2 op.x - fp.x - sp.x) * (-dy) + (2 op.y - fp.y - sp.y) * dx) / (2 len),
\* kept exactly as [num, lenSq], the real num / (2 sqrt(lenSq)).
\* len === 0 returns 50 = 100 / (2 sqrt(1)).
calculateOffset(fp, sp, op) ==
    LET dx == sp.x - fp.x
        dy == sp.y - fp.y
        lenSq == dx * dx + dy * dy
    IN  IF lenSq = 0
        THEN [num |-> 2 * DefaultOffset, lenSq |-> 1]
        ELSE [num |-> (2 * op.x - (fp.x + sp.x)) * (-dy)
                       + (2 * op.y - (fp.y + sp.y)) * dx,
              lenSq |-> lenSq]

\* the real value of an offset record equals the integer k
OffsetIs(o, k) ==
    /\ o.num * o.num = 4 * k * k * o.lenSq
    /\ (o.num >= 0) = (k >= 0) \/ o.num = 0

\* `dim-${Date.now()}`
DimId(t) == <<"dim-", t>>

---------------------------------------------------------------------------
(* The component's state as one value.  A handler closes over the state of *)
(* the render it was created in and queues setState calls; React applies   *)
(* them together before the next event is handled.  So a handler is a      *)
(* function from the state it sees to the next state.                      *)

State ==
    [dimensions       |-> dimensions,
     drawingState     |-> drawingState,
     firstPoint       |-> firstPoint,
     secondPoint      |-> secondPoint,
     offsetPoint      |-> offsetPoint,
     labelInput       |-> labelInput,
     isShiftPressed   |-> isShiftPressed,
     dimensionHistory |-> dimensionHistory,
     now              |-> now,
     clicks           |-> clicks]

\* the state after construction, lines 32-39
InitialState ==
    [dimensions       |-> <<>>,
     drawingState     |-> "idle",
     firstPoint       |-> null,
     secondPoint      |-> null,
     offsetPoint      |-> null,
     labelInput       |-> <<>>,
     isShiftPressed   |-> FALSE,
     dimensionHistory |-> <<>>,
     now              |-> 0,
     clicks           |-> <<>>]

\* the layer as useState constructs it
InitLayer ==
    /\ dimensions = InitialState.dimensions
    /\ drawingState = InitialState.drawingState
    /\ firstPoint = InitialState.firstPoint
    /\ secondPoint = InitialState.secondPoint
    /\ offsetPoint = InitialState.offsetPoint
    /\ labelInput = InitialState.labelInput
    /\ isShiftPressed = InitialState.isShiftPressed
    /\ dimensionHistory = InitialState.dimensionHistory
    /\ now = InitialState.now
    /\ clicks = InitialState.clicks

\* the layer on its own: just mounted by an editor in blueprint mode that
\* shows the isometric image of imgA, the layer's first effect run
Init ==
    /\ InitLayer
    /\ mode = "BLUEPRINT"
    /\ currentImage = imgA
    /\ isometricImage = imgA
    /\ orthographicViews = null
    /\ showTechnicalExport = FALSE
    /\ exportDimensions = <<>>
    /\ generationStatus = "idle"
    /\ orthoRequests = {}
    /\ effectPending = FALSE
    /\ exportSource = imgA
    /\ imageHistory = <<>>
    /\ retry = null

\* the next render sees state t
Becomes(t) ==
    /\ dimensions' = t.dimensions
    /\ drawingState' = t.drawingState
    /\ firstPoint' = t.firstPoint
    /\ secondPoint' = t.secondPoint
    /\ offsetPoint' = t.offsetPoint
    /\ labelInput' = t.labelInput
    /\ isShiftPressed' = t.isShiftPressed
    /\ dimensionHistory' = t.dimensionHistory
    /\ now' = t.now
    /\ clicks' = t.clicks

\* the editor state the layer's effect and its mounting depend on
Editor ==
    [mode                |-> mode,
     currentImage        |-> currentImage,
     isometricImage      |-> isometricImage,
     orthographicViews   |-> orthographicViews,
     showTechnicalExport |-> showTechnicalExport,
     generationStatus    |-> generationStatus,
     orthoRequests       |-> orthoRequests]

\* mode === 'BLUEPRINT' && isometricImage, line 776: the layer is mounted
LayerMountedIn(e) == e.mode = "BLUEPRINT" /\ e.isometricImage # null

LayerMounted == LayerMountedIn(Editor)

\* showTechnicalExport && isometricImage && orthographicViews, line 1093:
\* the export sheet is mounted, a fixed full-screen element above the editor
ExportOpenIn(e) ==
    /\ e.showTechnicalExport
    /\ e.isometricImage # null
    /\ e.orthographicViews # null

ExportOpen == ExportOpenIn(Editor)

\* the loading overlay, lines 625-638, a fixed full-screen element
LoaderOpen == generationStatus # "idle"

\* the editor's own controls receive pointer events
EditorClickable == ~LoaderOpen /\ ~ExportOpen

\* an editor that never stores what the layer reports
onDimensionsChangeIgnored(dims) == <<>>

\* (dims) => setExportDimensions(dims), EditorView.tsx line 795: the list
\* the editor stores
onDimensionsChange(dims) == dims

\* useEffect(() => onDimensionsChange?.(dimensions)), lines 71-73, after a
\* render of the layer in which dimensions became dims.  The effect runs
\* before the next event is handled.  It is a step of its own (RunEffect)
\* when the export sheet is mounted and renders exportDimensions in between;
\* otherwise nothing reads exportDimensions before the effect has run and
\* the effect is part of the step that schedules it.
EffectAfter(dims, e) ==
    IF ExportOpenIn(e)
    THEN /\ effectPending' = TRUE
         /\ UNCHANGED <<exportDimensions, exportSource>>
    ELSE /\ effectPending' = FALSE
         /\ exportDimensions' = onDimensionsChange(dims)
         /\ exportSource' = e.isometricImage

RunEffect ==
    /\ effectPending
    /\ exportDimensions' = onDimensionsChange(dimensions)
    /\ exportSource' = isometricImage
    /\ effectPending' = FALSE
    /\ UNCHANGED <<layerVars, editorVars, imageHistory, retry>>

\* an event of the layer is handled once the effects of the last render have
\* run; the render that follows sees state t and schedules the effect when
\* dimensions changed
LayerEvent(t) ==
    /\ ~effectPending
    /\ Becomes(t)
    /\ UNCHANGED <<editorVars, imageHistory, retry>>
    /\ IF t.dimensions = dimensions
       THEN UNCHANGED <<exportDimensions, exportSource, effectPending>>
       ELSE EffectAfter(t.dimensions, Editor)

---------------------------------------------------------------------------
(* The window key listeners, lines 43-69 *)

\* cancelled without setSecondPoint(null)
cancelledKeepsSecond(s) ==
    [s EXCEPT !.drawingState = "idle",
              !.firstPoint = null,
              !.offsetPoint = null,
              !.clicks = <<>>]

\* cancelled without setDrawingState('idle')
cancelledKeepsPhase(s) ==
    [s EXCEPT !.firstPoint = null,
              !.secondPoint = null,
              !.offsetPoint = null,
              !.clicks = <<>>]

\* lines 46-51: Escape
cancelled(s) ==
    [s EXCEPT !.drawingState = "idle",
              !.firstPoint = null,
              !.secondPoint = null,
              !.offsetPoint = null,
              !.clicks = <<>>]

\* undone taking the oldest snapshot, dimensionHistory[0]
undoneOldest(s) ==
    [s EXCEPT !.dimensions = Head(s.dimensionHistory),
              !.dimensionHistory = Tail(s.dimensionHistory)]

\* undone that also abandons the workflow in progress
undoneResetsWorkflow(s) ==
    [s EXCEPT !.dimensions = Last(s.dimensionHistory),
              !.dimensionHistory = Front(s.dimensionHistory),
              !.drawingState = "idle",
              !.firstPoint = null,
              !.secondPoint = null,
              !.offsetPoint = null,
              !.clicks = <<>>]

\* undone without setDimensionHistory(prev => prev.slice(0, -1))
undoneKeepsHistory(s) ==
    [s EXCEPT !.dimensions = Last(s.dimensionHistory)]

\* lines 53-57: Ctrl+Z with a non-empty history
undone(s) ==
    [s EXCEPT !.dimensions = Last(s.dimensionHistory),
              !.dimensionHistory = Front(s.dimensionHistory)]

\* handleKeyDown without the dimensionHistory.length > 0 test: on an empty
\* history dimensionHistory[-1] is undefined and becomes the list
handleKeyDownUnguarded(s, key, ctrl) ==
    LET s1 == IF key = "Shift" THEN [s EXCEPT !.isShiftPressed = TRUE] ELSE s
        s2 == IF key = "Escape" THEN cancelled(s1) ELSE s1
    IN  IF ctrl /\ key = "z"
        THEN IF Len(s.dimensionHistory) > 0
             THEN undone(s2)
             ELSE [s2 EXCEPT !.dimensions = <<"undefined">>]
        ELSE s2

\* handleKeyDown(e) with e.key = key and e.ctrlKey = ctrl
handleKeyDown(s, key, ctrl) ==
    LET s1 == IF key = "Shift" THEN [s EXCEPT !.isShiftPressed = TRUE] ELSE s
        s2 == IF key = "Escape" THEN cancelled(s1) ELSE s1
    IN  IF ctrl /\ key = "z" /\ Len(s.dimensionHistory) > 0
        THEN undone(s2)
        ELSE s2

\* handleKeyUp(e) with e.key = key
handleKeyUp(s, key) ==
    IF key = "Shift" THEN [s EXCEPT !.isShiftPressed = FALSE] ELSE s

---------------------------------------------------------------------------
(* The pointer handlers of the svg, lines 88-132 *)

\* the click handler with the phase name 'first_point' in its idle branch: no
\* branch of the handler leaves that phase
handleCanvasClickFirstPoint(s, p) ==
    LET point == getScaledCoordinates(p)
    IN  IF s.drawingState = "idle"
        THEN [s EXCEPT !.firstPoint = point,
                       !.secondPoint = null,
                       !.offsetPoint = null,
                       !.drawingState = "first_point",
                       !.clicks = <<point>>]
        ELSE IF s.drawingState = "second_point"
        THEN [s EXCEPT !.drawingState = "offset_point",
                       !.clicks = Append(s.clicks, point)]
        ELSE IF s.drawingState = "offset_point"
        THEN [s EXCEPT !.drawingState = "awaiting_label",
                       !.clicks = Append(s.clicks, point)]
        ELSE s

\* the click handler with a final else branch that starts a new dimension
handleCanvasClickRestarts(s, p) ==
    LET point == getScaledCoordinates(p)
    IN  IF s.drawingState = "second_point"
        THEN [s EXCEPT !.drawingState = "offset_point",
                       !.clicks = Append(s.clicks, point)]
        ELSE IF s.drawingState = "offset_point"
        THEN [s EXCEPT !.drawingState = "awaiting_label",
                       !.clicks = Append(s.clicks, point)]
        ELSE [s EXCEPT !.firstPoint = point,
                       !.secondPoint = null,
                       !.offsetPoint = null,
                       !.drawingState = "second_point",
                       !.clicks = <<point>>]

\* handleCanvasClick(e), the pointer at p
handleCanvasClick(s, p) ==
    LET point == getScaledCoordinates(p)
    IN  IF ~isActive \/ currentTool # "draw"
        THEN s
        ELSE IF s.drawingState = "idle"
        THEN [s EXCEPT !.firstPoint = point,
                       !.secondPoint = null,
                       !.offsetPoint = null,
                       !.drawingState = "second_point",
                       !.clicks = <<point>>]
        ELSE IF s.drawingState = "second_point"
        THEN [s EXCEPT !.drawingState = "offset_point",
                       !.clicks = Append(s.clicks, point)]
        ELSE IF s.drawingState = "offset_point"
        THEN [s EXCEPT !.drawingState = "awaiting_label",
                       !.clicks = Append(s.clicks, point)]
        ELSE s

\* the snap with the comparison dx >= dy: a diagonal snaps horizontally
snapToAxisTieHorizontal(fp, current) ==
    LET dx == Abs(current.x - fp.x)
        dy == Abs(current.y - fp.y)
    IN  IF dx >= dy
        THEN Point(current.x, fp.y)
        ELSE Point(fp.x, current.y)

\* the axis-snapped second point, lines 118-124
snapToAxis(fp, current) ==
    LET dx == Abs(current.x - fp.x)
        dy == Abs(current.y - fp.y)
    IN  IF dx > dy
        THEN Point(current.x, fp.y)
        ELSE Point(fp.x, current.y)

\* a move handler whose second branch tests for a phase other than
\* 'second_point' only: the second point keeps following the pointer
handleCanvasMouseMoveDragsSecond(s, p) ==
    LET current == getScaledCoordinates(p)
    IN  IF s.drawingState = "second_point" /\ s.firstPoint # null
        THEN [s EXCEPT !.secondPoint =
                 IF s.isShiftPressed
                 THEN snapToAxis(s.firstPoint, current)
                 ELSE current]
        ELSE IF s.firstPoint # null /\ s.secondPoint # null
        THEN [s EXCEPT !.secondPoint = current, !.offsetPoint = current]
        ELSE s

\* handleCanvasMouseMove(e), the pointer at p
handleCanvasMouseMove(s, p) ==
    LET current == getScaledCoordinates(p)
    IN  IF ~isActive \/ currentTool # "draw"
        THEN s
        ELSE IF s.drawingState = "second_point" /\ s.firstPoint # null
        THEN [s EXCEPT !.secondPoint =
                 IF s.isShiftPressed
                 THEN snapToAxis(s.firstPoint, current)
                 ELSE current]
        ELSE IF /\ s.drawingState = "offset_point"
                /\ s.firstPoint # null
                /\ s.secondPoint # null
        THEN [s EXCEPT !.offsetPoint = current]
        ELSE s

---------------------------------------------------------------------------
(* The label modal, mounted while drawingState = 'awaiting_label',         *)
(* lines 154-176 and 310-357                                               *)

\* the Dimension handleLabelSubmit builds, lines 157-167
newDim(s) ==
    [id     |-> DimId(s.now),
     x1     |-> s.firstPoint.x,
     y1     |-> s.firstPoint.y,
     x2     |-> s.secondPoint.x,
     y2     |-> s.secondPoint.y,
     offset |-> calculateOffset(s.firstPoint, s.secondPoint, s.offsetPoint),
     label  |-> s.labelInput]

\* the guard without the !labelInput.trim() test
submitRejectedIgnoresLabel(s) ==
    \/ s.firstPoint = null
    \/ s.secondPoint = null
    \/ s.offsetPoint = null

\* the guard of handleLabelSubmit, line 155: true when it returns at once
submitRejected(s) ==
    \/ s.firstPoint = null
    \/ s.secondPoint = null
    \/ s.offsetPoint = null
    \/ Trim(s.labelInput) = <<>>

\* a commit that pushes the list as it is after the append
committedSnapshotAfter(s) ==
    [s EXCEPT !.dimensionHistory =
                  Append(s.dimensionHistory, Append(s.dimensions, newDim(s))),
              !.dimensions = Append(s.dimensions, newDim(s)),
              !.labelInput = <<>>,
              !.firstPoint = null,
              !.secondPoint = null,
              !.offsetPoint = null,
              !.drawingState = "idle",
              !.clicks = <<>>]

\* a commit without the three setters of lines 172-174
committedKeepsPoints(s) ==
    [s EXCEPT !.dimensionHistory = Append(s.dimensionHistory, s.dimensions),
              !.dimensions = Append(s.dimensions, newDim(s)),
              !.labelInput = <<>>,
              !.drawingState = "idle",
              !.clicks = <<>>]

\* lines 157-175: the commit
committed(s) ==
    [s EXCEPT !.dimensionHistory = Append(s.dimensionHistory, s.dimensions),
              !.dimensions = Append(s.dimensions, newDim(s)),
              !.labelInput = <<>>,
              !.firstPoint = null,
              !.secondPoint = null,
              !.offsetPoint = null,
              !.drawingState = "idle",
              !.clicks = <<>>]

\* handleLabelSubmit(): Enter in the input, or the confirm button
handleLabelSubmit(s) ==
    IF submitRejected(s) THEN s ELSE committed(s)

\* the input's onChange: setLabelInput(e.target.value), line 319
handleLabelChange(s, text) ==
    [s EXCEPT !.labelInput = text]

\* the cancel button's onClick, lines 343-348 (the input's Escape branch,
\* lines 322-327, makes the same four assignments)
handleCancelClick(s) ==
    [s EXCEPT !.drawingState = "idle",
              !.firstPoint = null,
              !.secondPoint = null,
              !.offsetPoint = null,
              !.clicks = <<>>]

---------------------------------------------------------------------------
(* The two renderers of a committed list: the layer's svg, lines 211-260,  *)
(* and the export sheet, TechnicalDrawingExport.tsx lines 291-339          *)

\* the point (px + nx * k, py + ny * k) for the unit normal
\* (nx, ny) = (-dy, dx) / sqrt(lenSq) and the real k = off + extra, off an
\* offset record as calculateOffset returns it: kept symbolically
Displaced(px, py, dx, dy, off, extra) ==
    [x |-> px, y |-> py, nx |-> normal(dx, dy).nx, ny |-> normal(dx, dy).ny,
     lenSq |-> normal(dx, dy).lenSq, off |-> off, extra |-> extra]

\* extLen, line 227 and TechnicalDrawingExport.tsx line 306
extLen == 20

\* extReach with extDirection = offset > 0 ? 1 : -1
extReachStrict(off) == IF off.num > 0 THEN extLen ELSE -extLen

\* (Math.abs(offset) + extLen) * extDirection = offset + extLen * extDirection
extReach(off) == IF off.num >= 0 THEN extLen ELSE -extLen

\* the svg group both renderers build for one Dimension, but for the marker
\* ids; text and rect are centred on the middle of the dimension line, given
\* here with doubled base coordinates
dimensionGroup(dim, markerStart, markerEnd) ==
    LET dx == dim.x2 - dim.x1
        dy == dim.y2 - dim.y1
    IN  [key  |-> dim.id,
         ext1 |-> <<Point(dim.x1, dim.y1),
                    Displaced(dim.x1, dim.y1, dx, dy, dim.offset,
                              extReach(dim.offset))>>,
         ext2 |-> <<Point(dim.x2, dim.y2),
                    Displaced(dim.x2, dim.y2, dx, dy, dim.offset,
                              extReach(dim.offset))>>,
         line |-> <<Displaced(dim.x1, dim.y1, dx, dy, dim.offset, 0),
                    Displaced(dim.x2, dim.y2, dx, dy, dim.offset, 0)>>,
         markers |-> <<markerStart, markerEnd>>,
         textTwice |-> Displaced(dim.x1 + dim.x2, dim.y1 + dim.y2,
                                 2 * dx, 2 * dy, dim.offset, 0),
         rectWidth |-> Len(dim.label) * 24,
         text |-> dim.label]

\* the live renderer without the guard of line 216: the normal is 0 / 0
liveDimensionUnguarded(dim) ==
    dimensionGroup(dim, "arrowStart", "arrowEnd")

\* the callback of dimensions.map in the layer, lines 212-260
liveDimension(dim) ==
    LET dx == dim.x2 - dim.x1
        dy == dim.y2 - dim.y1
    IN  IF dx * dx + dy * dy = 0
        THEN null
        ELSE dimensionGroup(dim, "arrowStart", "arrowEnd")

\* an export callback that draws the Dimension from its second endpoint to
\* its first: the normal points the other way
exportDimensionReversed(dim) ==
    LET dx == dim.x2 - dim.x1
        dy == dim.y2 - dim.y1
    IN  IF dx * dx + dy * dy = 0
        THEN null
        ELSE dimensionGroup([dim EXCEPT !.x1 = dim.x2, !.y1 = dim.y2,
                                        !.x2 = dim.x1, !.y2 = dim.y1],
                            "exportArrowStart", "exportArrowEnd")

\* the callback of dimensions.map in the export sheet, lines 292-339
exportDimension(dim) ==
    LET dx == dim.x2 - dim.x1
        dy == dim.y2 - dim.y1
    IN  IF dx * dx + dy * dy = 0
        THEN null
        ELSE dimensionGroup(dim, "exportArrowStart", "exportArrowEnd")

\* dimensions.map(...) in the layer
liveRender(dims) == [i \in DOMAIN dims |-> liveDimension(dims[i])]

\* dimensions.map(...) in the export sheet
exportRender(dims) == [i \in DOMAIN dims |-> exportDimension(dims[i])]

\* the placement of the Dimensions layer on the export sheet,
\* TechnicalDrawingExport.tsx lines 49-64; lengths of the sheet in tenths,
\* ratios as [num, den]
sourceWidth == 1974

sourceHeight == 1711

targetRect == [x |-> 205, y |-> 1248, w |-> 5542, h |-> 4707]

\* the scale with Math.max for Math.min: the image covers the rectangle
imgScaleCover ==
    LET byWidth  == [num |-> targetRect.w, den |-> 10 * sourceWidth]
        byHeight == [num |-> targetRect.h, den |-> 10 * sourceHeight]
    IN  IF byWidth.num * byHeight.den < byHeight.num * byWidth.den
        THEN byHeight
        ELSE byWidth

\* Math.min(targetRect.w / sourceWidth, targetRect.h / sourceHeight)
imgScale ==
    LET byWidth  == [num |-> targetRect.w, den |-> 10 * sourceWidth]
        byHeight == [num |-> targetRect.h, den |-> 10 * sourceHeight]
    IN  IF byWidth.num * byHeight.den < byHeight.num * byWidth.den
        THEN byWidth
        ELSE byHeight

\* targetRect.x + (targetRect.w - sourceWidth * imgScale) / 2
offsetX ==
    [num |-> 2 * targetRect.x * imgScale.den + targetRect.w * imgScale.den
                - 10 * sourceWidth * imgScale.num,
     den |-> 20 * imgScale.den]

\* targetRect.y + (targetRect.h - sourceHeight * imgScale) / 2
offsetY ==
    [num |-> 2 * targetRect.y * imgScale.den + targetRect.h * imgScale.den
                - 10 * sourceHeight * imgScale.num,
     den |-> 20 * imgScale.den]

\* where that transform puts the canonical point p on the sheet:
\* p * imgScale + (offsetX, offsetY), both coordinates over den, in sheet
\* units
exportPoint(p) ==
    [x   |-> 20 * p.x * imgScale.num + offsetX.num,
     y   |-> 20 * p.y * imgScale.num + offsetY.num,
     den |-> 20 * imgScale.den]

\* <g transform={`translate(${offsetX}, ${offsetY}) scale(${imgScale})`}>,
\* line 291, around the groups of the list
exportLayer(dims) ==
    [translate |-> <<offsetX, offsetY>>,
     scale     |-> imgScale,
     children  |-> exportRender(dims)]

---------------------------------------------------------------------------
(* Actions: one browser event each *)

KeyDown ==
    \E key \in Keys, ctrl \in BOOLEAN : LayerEvent(handleKeyDown(State, key, ctrl))

KeyUp == \E key \in Keys : LayerEvent(handleKeyUp(State, key))

CanvasClick == \E p \in Pointers : LayerEvent(handleCanvasClick(State, p))

CanvasMouseMove == \E p \in Pointers : LayerEvent(handleCanvasMouseMove(State, p))

LabelChange ==
    /\ drawingState = "awaiting_label"
    /\ \E text \in LabelTexts : LayerEvent(handleLabelChange(State, text))

\* the model accepts commits while the list is shorter than MaxDims
LabelSubmit ==
    /\ drawingState = "awaiting_label"
    /\ submitRejected(State) \/ Len(dimensions) < MaxDims
    /\ LayerEvent(handleLabelSubmit(State))

CancelClick ==
    /\ drawingState = "awaiting_label"
    /\ LayerEvent(handleCancelClick(State))

\* a millisecond passes
Tick ==
    /\ now < MaxClock
    /\ LayerEvent([State EXCEPT !.now = now + 1])

Next ==
    \/ KeyDown
    \/ KeyUp
    \/ CanvasClick
    \/ CanvasMouseMove
    \/ LabelChange
    \/ LabelSubmit
    \/ CancelClick

\* the events of one millisecond: the clock does not advance
Spec == Init /\ [][Next]_vars

\* the same with time passing between events
SpecClock == Init /\ [][Next \/ Tick]_vars

---------------------------------------------------------------------------
(* The pointer geometry of one dimension in progress: the pointer ranges   *)
(* over WidePointers and nothing is committed                              *)

WideCanvasClick ==
    \E p \in WidePointers : LayerEvent(handleCanvasClick(State, p))

WideCanvasMouseMove ==
    \E p \in WidePointers : LayerEvent(handleCanvasMouseMove(State, p))

NextPointer ==
    \/ KeyDown
    \/ KeyUp
    \/ WideCanvasClick
    \/ WideCanvasMouseMove
    \/ LabelChange
    \/ CancelClick

SpecPointer == Init /\ [][NextPointer]_vars

---------------------------------------------------------------------------
(* The offset geometry of one dimension in progress: the pointer ranges    *)
(* over GridPointers                                                       *)

GridCanvasClick ==
    \E p \in GridPointers : LayerEvent(handleCanvasClick(State, p))

GridCanvasMouseMove ==
    \E p \in GridPointers : LayerEvent(handleCanvasMouseMove(State, p))

NextGeometry ==
    \/ GridCanvasClick
    \/ GridCanvasMouseMove
    \/ CancelClick

SpecGeometry == Init /\ [][NextGeometry]_vars

---------------------------------------------------------------------------
(* EditorView: modes, the blueprint images, the export sheet               *)

\* the editor renders with state e once the effects of the last render have
\* run.  A layer that stays mounted keeps its state; a layer that mounts
\* starts from its initial state and schedules its effect; the state of a
\* layer that unmounts is lost.
EditorBecomes(e) ==
    /\ ~effectPending
    /\ mode' = e.mode
    /\ currentImage' = e.currentImage
    /\ isometricImage' = e.isometricImage
    /\ orthographicViews' = e.orthographicViews
    /\ showTechnicalExport' = e.showTechnicalExport
    /\ generationStatus' = e.generationStatus
    /\ orthoRequests' = e.orthoRequests
    /\ UNCHANGED <<imageHistory, retry>>
    /\ Becomes(IF LayerMountedIn(e) = LayerMounted
               THEN State
               ELSE [InitialState EXCEPT !.now = now])
    /\ IF LayerMountedIn(e) /\ ~LayerMounted
       THEN EffectAfter(InitialState.dimensions, e)
       ELSE UNCHANGED <<exportDimensions, exportSource, effectPending>>

\* the mode buttons of the editor, lines 677-695
handleModeButton(e, m) ==
    IF m = "FINAL"
    THEN [e EXCEPT !.mode = "FINAL", !.showTechnicalExport = TRUE]
    ELSE [e EXCEPT !.mode = m]

\* handleHistoryClick(img), lines 182-205
handleHistoryClick(e, img, snapshotType) ==
    [e EXCEPT !.currentImage = img,
              !.isometricImage = null,
              !.orthographicViews = null,
              !.mode = IF snapshotType = "pre-sketch" THEN "OBJECT"
                       ELSE IF snapshotType = "pre-object" THEN "UPLOAD"
                       ELSE @]

\* handleBlueprintStart up to its first await, lines 566-575
handleBlueprintStart(e) ==
    IF e.currentImage = null
    THEN e
    ELSE [e EXCEPT !.generationStatus = "generating"]

\* handleRegenerateBlueprint, lines 273-277
handleRegenerateBlueprint(e) ==
    handleBlueprintStart([e EXCEPT !.isometricImage = null,
                                   !.orthographicViews = null])

\* handleBlueprintStart after its awaits, lines 576-606: the isometric image
\* of currentImage is stored, addToHistory makes it the current image, the
\* orthographic views are requested in the background
isometricResolved(e) ==
    [e EXCEPT !.isometricImage = e.currentImage,
              !.orthoRequests = @ \cup {e.currentImage},
              !.generationStatus = "idle"]

\* the catch and finally of handleBlueprintStart, lines 600-607
isometricRejected(e) == [e EXCEPT !.generationStatus = "idle"]

\* the then-callback of generateOrthographicViews, lines 593-596
orthographicResolved(e, img) ==
    [e EXCEPT !.orthographicViews = img, !.orthoRequests = @ \ {img}]

\* its catch-callback, lines 596-599
orthographicRejected(e, img) == [e EXCEPT !.orthoRequests = @ \ {img}]

\* the button 'final drawing' of the blueprint footer, lines 1070-1078
handleFinalDrawing(e) ==
    IF e.isometricImage = null \/ e.orthographicViews = null
    THEN e
    ELSE [e EXCEPT !.showTechnicalExport = TRUE, !.mode = "FINAL"]

\* onModeChange of the export sheet, lines 1110-1113
onModeChange(e, newMode) ==
    [e EXCEPT !.mode = newMode,
              !.showTechnicalExport = IF newMode # "FINAL" THEN FALSE ELSE @]

\* onHistoryClick of the export sheet, lines 1106-1109
onHistoryClick(e, img, snapshotType) ==
    [handleHistoryClick(e, img, snapshotType)
        EXCEPT !.showTechnicalExport = FALSE]

ModeButton ==
    /\ EditorClickable
    /\ \E m \in EditorModes : EditorBecomes(handleModeButton(Editor, m))

HistoryClick ==
    /\ EditorClickable
    /\ \E img \in Images, st \in SnapshotTypes :
           EditorBecomes(handleHistoryClick(Editor, img, st))

BlueprintStart ==
    /\ EditorClickable
    /\ mode = "BLUEPRINT" /\ isometricImage = null
    /\ EditorBecomes(handleBlueprintStart(Editor))

RegenerateBlueprint ==
    /\ EditorClickable
    /\ mode = "BLUEPRINT"
    /\ EditorBecomes(handleRegenerateBlueprint(Editor))

IsometricResolved ==
    /\ generationStatus = "generating"
    /\ EditorBecomes(isometricResolved(Editor))

IsometricRejected ==
    /\ generationStatus = "generating"
    /\ EditorBecomes(isometricRejected(Editor))

OrthographicResolved ==
    \E img \in orthoRequests : EditorBecomes(orthographicResolved(Editor, img))

OrthographicRejected ==
    \E img \in orthoRequests : EditorBecomes(orthographicRejected(Editor, img))

FinalDrawingButton ==
    /\ EditorClickable
    /\ mode = "BLUEPRINT"
    /\ EditorBecomes(handleFinalDrawing(Editor))

\* the mode buttons of the export sheet, TechnicalDrawingExport.tsx
\* lines 124-131: every mode but 'final'
ExportModeButton ==
    /\ ExportOpen
    /\ \E m \in EditorModes \ {"FINAL"} : EditorBecomes(onModeChange(Editor, m))

\* a history item of the export sheet, TechnicalDrawingExport.tsx line 158
ExportHistoryClick ==
    /\ ExportOpen
    /\ \E img \in Images, st \in SnapshotTypes :
           EditorBecomes(onHistoryClick(Editor, img, st))

\* the undo button of the blueprint footer, lines 1051-1060: a synthetic
\* Ctrl+Z keydown on window, heard by a mounted layer
UndoButton ==
    /\ EditorClickable
    /\ mode = "BLUEPRINT"
    /\ LayerMounted
    /\ LayerEvent(handleKeyDown(State, "z", TRUE))

\* the layer inside the editor.  Its window listeners hear the keyboard
\* whenever it is mounted, and its label input keeps the focus; its svg and
\* the modal's buttons need the pointer.  The pointer clicks at one place
\* and moves between two; the keyboard sends Escape and Ctrl+Z.
MountedKeyDown ==
    /\ LayerMounted
    /\ \E key \in {"Escape", "z"} :
           LayerEvent(handleKeyDown(State, key, key = "z"))

MountedCanvasClick ==
    /\ LayerMounted /\ EditorClickable
    /\ LayerEvent(handleCanvasClick(State, <<10, 10>>))

MountedCanvasMouseMove ==
    /\ LayerMounted /\ EditorClickable
    /\ \E p \in Pointers : LayerEvent(handleCanvasMouseMove(State, p))

MountedLabelChange ==
    /\ LayerMounted
    /\ drawingState = "awaiting_label"
    /\ LayerEvent(handleLabelChange(State, <<"5", "0", "m", "m">>))

MountedLabelSubmit ==
    /\ LayerMounted
    /\ LabelSubmit

MountedCancelClick ==
    /\ LayerMounted /\ EditorClickable
    /\ CancelClick

\* the editor after construction, lines 66-76, on the image imgA
InitEditor ==
    /\ InitLayer
    /\ mode = "OBJECT"
    /\ currentImage = imgA
    /\ isometricImage = null
    /\ orthographicViews = null
    /\ showTechnicalExport = FALSE
    /\ exportDimensions = <<>>
    /\ generationStatus = "idle"
    /\ orthoRequests = {}
    /\ effectPending = FALSE
    /\ exportSource = null
    /\ imageHistory = <<>>
    /\ retry = null

NextEditor ==
    \/ ModeButton
    \/ HistoryClick
    \/ BlueprintStart
    \/ RegenerateBlueprint
    \/ IsometricResolved
    \/ IsometricRejected
    \/ OrthographicResolved
    \/ OrthographicRejected
    \/ FinalDrawingButton
    \/ ExportModeButton
    \/ ExportHistoryClick
    \/ UndoButton
    \/ MountedKeyDown
    \/ MountedCanvasClick
    \/ MountedCanvasMouseMove
    \/ MountedLabelChange
    \/ MountedLabelSubmit
    \/ MountedCancelClick
    \/ RunEffect

SpecEditor == InitEditor /\ [][NextEditor]_vars

---------------------------------------------------------------------------
(* The image history of the sidebar, EditorView.tsx lines 88 and 165-180.  *)
(* The specifications of the editor above take the images of the sidebar   *)
(* as inputs of HistoryClick and leave the list alone; the list is         *)
(* followed here, an image being its id                                    *)

\* updated.slice(-20), line 177
HistoryLimit == 20

\* prev.some(img => img.id === newImage.id), line 173
existsInHistory(prev, newImage) ==
    \E i \in DOMAIN prev : prev[i].id = newImage.id

\* addToHistory whose updater keeps the first 20: updated.slice(0, 20)
addToHistoryKeepsOldest(e, newImage, snapshotType) ==
    LET entry   == [id |-> newImage.id, snapshotType |-> snapshotType]
        updated == Append(e.imageHistory, entry)
    IN  [imageHistory |->
             IF existsInHistory(e.imageHistory, newImage)
             THEN e.imageHistory
             ELSE SubSeq(updated, 1, Min(Len(updated), HistoryLimit)),
         currentImage |-> entry]

\* addToHistory(newImage, snapshotType), lines 166-180, on the editor's
\* cells imageHistory and currentImage
addToHistory(e, newImage, snapshotType) ==
    LET entry   == [id |-> newImage.id, snapshotType |-> snapshotType]
        updated == Append(e.imageHistory, entry)
    IN  [imageHistory |->
             IF existsInHistory(e.imageHistory, newImage)
             THEN e.imageHistory
             ELSE SubSeq(updated, Max(1, Len(updated) - HistoryLimit + 1),
                         Len(updated)),
         currentImage |-> entry]

\* the ids of the list
HistoryIds(h) == {h[i].id : i \in DOMAIN h}

\* the images a call is made with: a new image, whose id (it ends in
\* Date.now()) is above every id of the list, without a snapshot type; or
\* the first image ever, the oldest image of the list or the current image
\* again, with any snapshot type
NewImages ==
    LET newest == IF imageHistory = <<>> THEN 0
                  ELSE CHOOSE m \in HistoryIds(imageHistory) :
                           \A k \in HistoryIds(imageHistory) : k <= m
    IN  IF newest < MaxImages
        THEN {<<[id |-> newest + 1], "none">>}
        ELSE {}

OldImages ==
    IF imageHistory = <<>>
    THEN {}
    ELSE {<<[id |-> n], st>> :
              n \in {1, Head(imageHistory).id, currentImage.id},
              st \in SnapshotTypes}

AddToHistory ==
    \E call \in NewImages \cup OldImages :
        LET t == addToHistory([imageHistory |-> imageHistory,
                               currentImage |-> currentImage],
                              call[1], call[2])
        IN  /\ imageHistory' = t.imageHistory
            /\ currentImage' = t.currentImage
            /\ UNCHANGED <<layerVars, mode, isometricImage, orthographicViews,
                           showTechnicalExport, generationStatus,
                           orthoRequests, exportDimensions, effectPending,
                           exportSource, retry>>

NextHistory == AddToHistory

SpecHistory == InitEditor /\ [][NextHistory]_vars

---------------------------------------------------------------------------
(* withRetry, geminiService.ts lines 68-86.  An error message is the       *)
(* sequence of its words, and includes(marker) looks for the marker among  *)
(* them                                                                    *)

\* the messages operation() rejects with; <<>> is an error without message
ErrorMessages ==
    {<<"500">>, <<"Service", "503">>, <<"Internal error">>,
     <<"model", "overloaded">>, <<"429", "quota">>,
     <<"400", "bad", "request">>, <<"Internal Error">>, <<>>}

\* the delays withRetry is called with; 1000 is the default
Delays == {1000, 250}

\* errorMsg.includes(marker)
includes(errorMsg, marker) == \E i \in DOMAIN errorMsg : errorMsg[i] = marker

\* a test that takes every error for a transient one
isTransientAlways(errorMsg) == TRUE

\* the test of line 76
isTransient(errorMsg) ==
    \/ includes(errorMsg, "500")
    \/ includes(errorMsg, "503")
    \/ includes(errorMsg, "Internal error")
    \/ includes(errorMsg, "overloaded")
    \/ includes(errorMsg, "429")

\* withRetry(operation, retries, delay) is called: operation() is invoked,
\* line 70
withRetry(retries, delay) ==
    [pc       |-> "operation",
     retries  |-> retries,
     delay    |-> delay,
     given    |-> [retries |-> retries, delay |-> delay],
     calls    |-> 1,
     errors   |-> <<>>,
     waits    |-> <<>>,
     settled  |-> null]

\* operation() resolves: return await operation(), line 71
operationResolved(r) ==
    [r EXCEPT !.pc = "returned", !.settled = [value |-> r.calls]]

\* operation() rejects with an error of message errorMsg: the catch block,
\* lines 72-84, up to its await or its throw
operationRejected(r, errorMsg) ==
    IF r.retries > 0 /\ isTransient(errorMsg)
    THEN [r EXCEPT !.pc = "timeout",
                   !.errors = Append(@, errorMsg)]
    ELSE [r EXCEPT !.pc = "thrown",
                   !.errors = Append(@, errorMsg),
                   !.settled = [error |-> errorMsg]]

\* the timer of line 80 fires: withRetry(operation, retries - 1, delay * 2),
\* line 81, invokes operation() again
timeoutFired(r) ==
    [r EXCEPT !.pc = "operation",
              !.waits = Append(@, r.delay),
              !.retries = @ - 1,
              !.delay = @ * 2,
              !.calls = @ + 1]

RetryBecomes(r) ==
    /\ retry' = r
    /\ UNCHANGED <<layerVars, editorVars, exportDimensions, effectPending,
                   exportSource, imageHistory>>

OperationResolved ==
    /\ retry.pc = "operation"
    /\ RetryBecomes(operationResolved(retry))

OperationRejected ==
    /\ retry.pc = "operation"
    /\ \E errorMsg \in ErrorMessages :
           RetryBecomes(operationRejected(retry, errorMsg))

TimeoutFired ==
    /\ retry.pc = "timeout"
    /\ RetryBecomes(timeoutFired(retry))

InitRetry ==
    /\ InitLayer
    /\ mode = "OBJECT"
    /\ currentImage = imgA
    /\ isometricImage = null
    /\ orthographicViews = null
    /\ showTechnicalExport = FALSE
    /\ exportDimensions = <<>>
    /\ generationStatus = "generating"
    /\ orthoRequests = {}
    /\ effectPending = FALSE
    /\ exportSource = null
    /\ imageHistory = <<>>
    /\ \E retries \in 0..MaxRetries, delay \in Delays :
           retry = withRetry(retries, delay)

NextRetry ==
    \/ OperationResolved
    \/ OperationRejected
    \/ TimeoutFired

\* the promise of operation() settles and the timer fires
SpecRetry == InitRetry /\ [][NextRetry]_vars /\ WF_vars(NextRetry)

---------------------------------------------------------------------------
(* Properties.  A handler applied to the current state, H(State), is the   *)
(* state the next render would see if that event arrived now.              *)

\* a submit that commits: the modal is open and line 155 lets it through
CommitAccepted(s) ==
    /\ s.drawingState = "awaiting_label"
    /\ ~submitRejected(s)

\* every Dimension of the list and of every history snapshot
AllDims ==
    { dimensions[i] : i \in DOMAIN dimensions }
    \cup UNION { { dimensionHistory[k][i] : i \in DOMAIN dimensionHistory[k] }
                 : k \in DOMAIN dimensionHistory }

\* C1: from every reachable list L and history H, a commit followed by one
\* undo signal (Ctrl+Z) leaves the dimension list equal to L and the
\* history stack equal to H.
C1_CommitThenUndoRestores ==
    CommitAccepted(State) =>
        LET afterCommit == handleLabelSubmit(State)
            afterUndo   == handleKeyDown(afterCommit, "z", TRUE)
        IN  /\ afterUndo.dimensions = dimensions
            /\ afterUndo.dimensionHistory = dimensionHistory

\* a commit onto a non-empty list, which the undo takes back
C1_Witness ==
    /\ CommitAccepted(State)
    /\ dimensions # <<>>
    /\ Len(handleLabelSubmit(State).dimensions) = Len(dimensions) + 1
    /\ handleKeyDown(handleLabelSubmit(State), "z", TRUE).dimensions
           = dimensions

\* C2 (as claimed): in AwaitingLabel, submitting a non-empty labelInput
\* (read as: non-blank) commits: the pre-commit list becomes the newest
\* history snapshot, exactly one Dimension is appended after the existing
\* entries, the three points and labelInput are cleared, the phase is Idle.
C2_NonEmptySubmitCommits ==
    (drawingState = "awaiting_label" /\ Trim(labelInput) # <<>>) =>
        LET t == handleLabelSubmit(State)
        IN  /\ t.dimensionHistory = Append(dimensionHistory, dimensions)
            /\ Len(t.dimensions) = Len(dimensions) + 1
            /\ SubSeq(t.dimensions, 1, Len(dimensions)) = dimensions
            /\ t.firstPoint = null
            /\ t.secondPoint = null
            /\ t.offsetPoint = null
            /\ t.labelInput = <<>>
            /\ t.drawingState = "idle"

\* C3 (as claimed): a Dimension committed after three canvas clicks and a
\* label submit has (x1,y1) at the first click, (x2,y2) at the second click,
\* offset projectOffset(first, second, third click) and the submitted text
\* as label; clicks (10,10), (110,10), (110,60) give an offset of
\* magnitude 50.
C3_CommittedFromClicks ==
    [][ (CommitAccepted(State) /\ Len(dimensions') = Len(dimensions) + 1) =>
            LET d == Last(dimensions')
            IN  /\ Len(clicks) = 3
                /\ d.x1 = clicks[1].x /\ d.y1 = clicks[1].y
                /\ d.x2 = clicks[2].x /\ d.y2 = clicks[2].y
                /\ d.offset = calculateOffset(clicks[1], clicks[2], clicks[3])
                /\ d.label = labelInput
                /\ clicks = <<Point(10, 10), Point(110, 10), Point(110, 60)>>
                       => OffsetIs(d.offset, 50) \/ OffsetIs(d.offset, -50)
      ]_vars

\* C4 (as claimed): no Dimension of the committed list or of a history
\* snapshot has (x1,y1) equal to (x2,y2).
C4_NoZeroLengthDimension ==
    \A d \in AllDims : ~(d.x1 = d.x2 /\ d.y1 = d.y2)

\* C5: a cancel signal (Escape, or the modal's cancel button) in a non-Idle
\* phase sets the phase to Idle with the three points unset and leaves the
\* dimension list and the history stack unchanged.
C5_IsCancelled(t) ==
    /\ t.drawingState = "idle"
    /\ t.firstPoint = null
    /\ t.secondPoint = null
    /\ t.offsetPoint = null
    /\ t.dimensions = dimensions
    /\ t.dimensionHistory = dimensionHistory

C5_CancelReturnsToIdle ==
    /\ drawingState # "idle" =>
           \A ctrl \in BOOLEAN :
               C5_IsCancelled(handleKeyDown(State, "Escape", ctrl))
    /\ drawingState = "awaiting_label" =>
           C5_IsCancelled(handleCancelClick(State))

\* a cancel with all three points captured and a non-empty list
C5_Witness ==
    /\ drawingState = "awaiting_label"
    /\ firstPoint # null /\ secondPoint # null /\ offsetPoint # null
    /\ dimensions # <<>>
    /\ C5_IsCancelled(handleKeyDown(State, "Escape", FALSE))
    /\ C5_IsCancelled(handleCancelClick(State))

\* C6 (as claimed): a cancel in AwaitingLabel (a step from AwaitingLabel to
\* Idle that commits nothing) leaves labelInput empty.
C6_CancelClearsLabel ==
    [][ ( /\ drawingState = "awaiting_label"
          /\ drawingState' = "idle"
          /\ dimensions' = dimensions ) => labelInput' = <<>> ]_vars

\* C7: from a fresh session, two clicks in, a cancel, then a complete fresh
\* workflow yields exactly one Dimension, the one the fresh workflow alone
\* produces, and a history of exactly one empty snapshot.
C7_FreshAttempt(s, shift, p1, q1, p2, q2, p3, text) ==
    LET s0 == IF shift THEN handleKeyDown(s, "Shift", FALSE)
                       ELSE handleKeyUp(s, "Shift")
        s1 == handleCanvasMouseMove(handleCanvasClick(s0, p1), q1)
        s2 == handleCanvasMouseMove(handleCanvasClick(s1, p2), q2)
        s3 == handleLabelChange(handleCanvasClick(s2, p3), text)
    IN  handleLabelSubmit(s3)

\* two clicks into the first workflow of a session
C7_TwoClicksIn ==
    /\ drawingState = "offset_point"
    /\ dimensions = <<>>
    /\ dimensionHistory = <<>>
    /\ labelInput = <<>>

C7_CancelLeavesNoResidue ==
    C7_TwoClicksIn =>
        \A shift \in BOOLEAN, p1, q1, p2, q2, p3 \in Pointers,
           text \in { l \in LabelTexts : Trim(l) # <<>> } :
            LET t == handleKeyDown(State, "Escape", FALSE)
                u == C7_FreshAttempt(t, shift, p1, q1, p2, q2, p3, text)
                r == C7_FreshAttempt([InitialState EXCEPT !.now = now],
                                     shift, p1, q1, p2, q2, p3, text)
            IN  /\ Len(u.dimensions) = 1
                /\ u.dimensions = r.dimensions
                /\ u.dimensions[1].x1 = getScaledCoordinates(p1).x
                /\ u.dimensions[1].y1 = getScaledCoordinates(p1).y
                /\ u.dimensions[1].label = text
                /\ u.dimensionHistory = << <<>> >>

\* two clicks in with both points of the cancelled workflow captured, and
\* different from what the fresh one will capture
C7_Witness ==
    /\ C7_TwoClicksIn
    /\ firstPoint = Point(10, 10)
    /\ secondPoint = Point(1974, 10)
    /\ offsetPoint = Point(1974, 60)
    /\ LET u == C7_FreshAttempt(handleKeyDown(State, "Escape", FALSE), FALSE,
                                <<2000, 60>>, <<10, 10>>, <<10, 10>>,
                                <<10, 10>>, <<10, 10>>, <<"5", "0", "m", "m">>)
       IN  /\ Len(u.dimensions) = 1
           /\ u.dimensions[1].x1 = 1974 /\ u.dimensions[1].y1 = 60
           /\ u.dimensions[1].x2 = 10 /\ u.dimensions[1].y2 = 10

\* C8: in AwaitingLabel a submit with an empty labelInput changes nothing:
\* list, history, the three points and the phase stay as they are.
C8_EmptyLabelRejected ==
    (drawingState = "awaiting_label" /\ labelInput = <<>>) =>
        handleLabelSubmit(State) = State

\* an empty label is all that stands between the submit and a commit
C8_Witness ==
    /\ drawingState = "awaiting_label"
    /\ labelInput = <<>>
    /\ firstPoint # null /\ secondPoint # null /\ offsetPoint # null
    /\ handleLabelSubmit(State) = State

\* C9: an undo signal with an empty history stack changes nothing.
C9_UndoOnEmptyHistory ==
    dimensionHistory = <<>> => handleKeyDown(State, "z", TRUE) = State

\* an undo with nothing to undo, in the middle of a workflow
C9_Witness ==
    /\ dimensionHistory = <<>>
    /\ drawingState = "offset_point"
    /\ secondPoint # null
    /\ handleKeyDown(State, "z", TRUE) = State

\* C10: in every phase an undo signal with a non-empty history replaces the
\* list by the most recent snapshot and removes that snapshot, and leaves
\* the phase, the three points and labelInput unchanged.
C10_UndoKeepsWorkflow ==
    dimensionHistory # <<>> =>
        LET t == handleKeyDown(State, "z", TRUE)
        IN  /\ t.dimensions = Last(dimensionHistory)
            /\ t.dimensionHistory = Front(dimensionHistory)
            /\ t.drawingState = drawingState
            /\ t.firstPoint = firstPoint
            /\ t.secondPoint = secondPoint
            /\ t.offsetPoint = offsetPoint
            /\ t.labelInput = labelInput

\* an undo while the label modal is open, two commits deep
C10_Witness ==
    /\ Len(dimensionHistory) = 2
    /\ drawingState = "awaiting_label"
    /\ offsetPoint # null
    /\ labelInput # <<>>
    /\ handleKeyDown(State, "z", TRUE).dimensions = Last(dimensionHistory)
    /\ handleKeyDown(State, "z", TRUE).drawingState = "awaiting_label"

\* C11: the phase changes only along Idle -> SecondPoint -> OffsetPoint ->
\* AwaitingLabel -> Idle, the first three by one canvas click each and the
\* last by a commit, or from any phase to Idle by a cancel; no step enters
\* the phase 'first_point'.
C11_PhaseGraph ==
    [][ drawingState' # drawingState =>
          /\ drawingState' # "first_point"
          /\ \/ /\ drawingState = "idle" /\ drawingState' = "second_point"
                /\ \E p \in Pointers : State' = handleCanvasClick(State, p)
             \/ /\ drawingState = "second_point"
                /\ drawingState' = "offset_point"
                /\ \E p \in Pointers : State' = handleCanvasClick(State, p)
             \/ /\ drawingState = "offset_point"
                /\ drawingState' = "awaiting_label"
                /\ \E p \in Pointers : State' = handleCanvasClick(State, p)
             \/ /\ drawingState = "awaiting_label" /\ drawingState' = "idle"
                /\ CommitAccepted(State)
                /\ State' = handleLabelSubmit(State)
             \/ /\ drawingState' = "idle"
                /\ \/ \E ctrl \in BOOLEAN :
                          State' = handleKeyDown(State, "Escape", ctrl)
                   \/ /\ drawingState = "awaiting_label"
                      /\ State' = handleCancelClick(State) ]_vars

\* the second trip round the cycle has reached the label modal
C11_Witness ==
    /\ drawingState = "awaiting_label"
    /\ Len(clicks) = 3
    /\ Len(dimensions) = 1
    /\ Len(dimensionHistory) = 1

\* C12: in AwaitingLabel a canvas click and a pointer move change neither
\* the phase nor firstPoint, secondPoint or offsetPoint.
C12_AwaitingLabelIgnoresPointer ==
    drawingState = "awaiting_label" =>
        \A p \in Pointers :
            LET c == handleCanvasClick(State, p)
                m == handleCanvasMouseMove(State, p)
            IN  /\ c.drawingState = "awaiting_label"
                /\ c.firstPoint = firstPoint
                /\ c.secondPoint = secondPoint
                /\ c.offsetPoint = offsetPoint
                /\ m.drawingState = "awaiting_label"
                /\ m.firstPoint = firstPoint
                /\ m.secondPoint = secondPoint
                /\ m.offsetPoint = offsetPoint

\* the modal is open over three captured points and the pointer is somewhere
\* else than the offset point
C12_Witness ==
    /\ drawingState = "awaiting_label"
    /\ firstPoint # null /\ secondPoint # null /\ offsetPoint # null
    /\ \E p \in Pointers : getScaledCoordinates(p) # offsetPoint
    /\ \A p \in Pointers : handleCanvasClick(State, p) = State
    /\ \A p \in Pointers : handleCanvasMouseMove(State, p) = State

\* C13: in SecondPoint a pointer move with Shift held sets the live second
\* point to (pointer.x, firstPoint.y) when |dx| > |dy| and to
\* (firstPoint.x, pointer.y) otherwise, |dx| = |dy| included; without Shift
\* the live second point is the pointer location.
C13_AxisSnap ==
    (drawingState = "second_point" /\ firstPoint # null) =>
        \A p \in WidePointers :
            LET q == getScaledCoordinates(p)
                dx == Abs(q.x - firstPoint.x)
                dy == Abs(q.y - firstPoint.y)
                sp == handleCanvasMouseMove(State, p).secondPoint
            IN  IF isShiftPressed
                THEN IF dx > dy
                     THEN sp = Point(q.x, firstPoint.y)
                     ELSE sp = Point(firstPoint.x, q.y)
                ELSE sp = q

\* Shift is held and the last move went along the diagonal from (10, 10) to
\* (60, 60): the second point is vertically above the first
C13_Witness ==
    /\ drawingState = "second_point"
    /\ isShiftPressed
    /\ firstPoint = Point(10, 10)
    /\ secondPoint = Point(10, 60)
    /\ handleCanvasMouseMove(State, <<60, 60>>).secondPoint = secondPoint
    /\ handleCanvasMouseMove(State, <<2000, -5>>).secondPoint
           = Point(width, 10)

C14_OnCanvas(pt) ==
    pt # null => (0 <= pt.x /\ pt.x <= width /\ 0 <= pt.y /\ pt.y <= height)

\* C14: firstPoint, secondPoint and offsetPoint, and the endpoints of every
\* committed Dimension, lie in 0 <= x <= width, 0 <= y <= height, wherever
\* the pointer is and with or without the axis snap.
C14_PointsClamped ==
    /\ C14_OnCanvas(firstPoint)
    /\ C14_OnCanvas(secondPoint)
    /\ C14_OnCanvas(offsetPoint)
    /\ LET t == handleLabelSubmit(State)
       IN  \A d \in AllDims \cup { t.dimensions[i] : i \in DOMAIN t.dimensions } :
               /\ C14_OnCanvas(Point(d.x1, d.y1))
               /\ C14_OnCanvas(Point(d.x2, d.y2))

\* a submit is about to commit a Dimension that runs from the bottom-left
\* corner to the top-right corner, both reached from pointers off the canvas
C14_Witness ==
    /\ CommitAccepted(State)
    /\ firstPoint = Point(0, height)
    /\ secondPoint = Point(width, 0)
    /\ offsetPoint = Point(0, height)
    /\ newDim(State).x1 = 0 /\ newDim(State).y1 = height
    /\ newDim(State).x2 = width /\ newDim(State).y2 = 0

\* C15: the ids of the Dimensions in the committed list are pairwise
\* distinct, whatever the time between the commits.
C15_IdsUnique ==
    \A i, j \in DOMAIN dimensions :
        dimensions[i].id = dimensions[j].id => i = j

\* C16: when the user goes from the live editor into the export/final view,
\* the list handed to the export renderer is the live editor's committed
\* list of that moment.
C16_ExportReceivesLiveList ==
    [][ ( /\ LayerMounted
          /\ \/ mode # "FINAL" /\ mode' = "FINAL"
             \/ ~ExportOpen /\ ExportOpen' )
        => exportDimensions' = dimensions ]_vars

\* the final view is open on a list of two Dimensions
C16_Witness ==
    /\ mode = "FINAL"
    /\ ExportOpen
    /\ Len(exportDimensions) = 2
    /\ exportSource = isometricImage

\* C17: while an export view is open, a commit or an undo on the live store
\* does not change the list the open export view renders: the list the
\* layer's effect hands to the editor after either is the list rendered now.
C17_OpenExportIsolated ==
    (ExportOpen /\ LayerMounted /\ ~effectPending) =>
        /\ onDimensionsChange(handleKeyDown(State, "z", TRUE).dimensions)
               = exportDimensions
        /\ onDimensionsChange(handleLabelSubmit(State).dimensions)
               = exportDimensions

\* C18: going from blueprint editing to the final export and back leaves the
\* committed list and the export list as they were: the export list is the
\* list the editor held when it was left (C16), and the step back gives the
\* layer that list again.
C18_RoundTripKeepsLists ==
    [][ (mode = "FINAL" /\ ExportOpen /\ mode' = "BLUEPRINT" /\ LayerMounted')
        => /\ dimensions' = exportDimensions
           /\ exportDimensions' = exportDimensions ]_vars

\* C19: once another image was loaded from the history, no export view
\* renders a Dimension drawn on the previous image: the Dimensions an open
\* export view renders were drawn on the image it shows.
C19_NoStaleDimensions ==
    ExportOpen =>
        (exportDimensions = <<>> \/ exportSource = isometricImage)

C20_ZeroLength(dim) == dim.x1 = dim.x2 /\ dim.y1 = dim.y2

C20_SkipsOnlyZeroLength(rendered, dims) ==
    /\ DOMAIN rendered = DOMAIN dims
    /\ \A i \in DOMAIN dims :
           IF C20_ZeroLength(dims[i])
           THEN rendered[i] = null
           ELSE /\ rendered[i] # null
                /\ rendered[i].key = dims[i].id
                /\ rendered[i].text = dims[i].label

\* C20: for a Dimension with x1 = x2 and y1 = y2 the live renderer and the
\* export renderer produce nothing, and both still render every other
\* Dimension of the list.
C20_DegenerateSkipped ==
    /\ LayerMounted => C20_SkipsOnlyZeroLength(liveRender(dimensions), dimensions)
    /\ ExportOpen =>
           C20_SkipsOnlyZeroLength(exportRender(exportDimensions),
                                   exportDimensions)

\* the export sheet and the layer render the same list, its first Dimension
\* of length zero and its second not
C20_Witness ==
    /\ ExportOpen /\ LayerMounted
    /\ dimensions = exportDimensions
    /\ Len(dimensions) = 2
    /\ C20_ZeroLength(dimensions[1])
    /\ ~C20_ZeroLength(dimensions[2])
    /\ liveRender(dimensions)[1] = null
    /\ exportRender(exportDimensions)[1] = null
    /\ liveRender(dimensions)[2].text = dimensions[2].label
    /\ exportRender(exportDimensions)[2].text = dimensions[2].label

\* probes are looked for up to this distance from the segment
MaxOffset == 20

C21_Sign(n) == IF n > 0 THEN 1 ELSE IF n < 0 THEN -1 ELSE 0

\* C21: for a segment with distinct endpoints and a scalar k,
\* calculateOffset(p1, p2, midpoint + k * normal) is k.  On an axis-aligned
\* segment the unit normal is (-sign(dy), sign(dx)) and k is any integer; on
\* any segment the probe midpoint + (j/2) * (-dy, dx) has k = j * len / 2.
C21_OffsetRoundTrip ==
    ( /\ firstPoint # null /\ secondPoint # null /\ offsetPoint # null
      /\ firstPoint # secondPoint ) =>
        LET dx == secondPoint.x - firstPoint.x
            dy == secondPoint.y - firstPoint.y
            px == 2 * offsetPoint.x - (firstPoint.x + secondPoint.x)
            py == 2 * offsetPoint.y - (firstPoint.y + secondPoint.y)
            o  == calculateOffset(firstPoint, secondPoint, offsetPoint)
        IN  /\ (dx = 0 \/ dy = 0) =>
                   \A k \in -MaxOffset .. MaxOffset :
                       ( /\ px = 2 * k * (-C21_Sign(dy))
                         /\ py = 2 * k * C21_Sign(dx) ) => OffsetIs(o, k)
            /\ \A j \in -2 .. 2 :
                   (px = j * (-dy) /\ py = j * dx) =>
                       /\ o.num = j * (dx * dx + dy * dy)
                       /\ o.lenSq = dx * dx + dy * dy

\* the pointer rests 6 above the middle of the horizontal segment from
\* (10, 10) to (30, 10), whose normal points down the screen
C21_Witness ==
    /\ firstPoint = Point(10, 10)
    /\ secondPoint = Point(30, 10)
    /\ offsetPoint = Point(20, 4)
    /\ OffsetIs(calculateOffset(firstPoint, secondPoint, offsetPoint), -6)
    /\ OffsetIs(calculateOffset(secondPoint, firstPoint, offsetPoint), 6)

\* C22: for two distinct points the normal (-dy/len, dx/len) of
\* calculateOffset and of both renderers is orthogonal to the segment
\* direction and has length 1.  For calculateOffset: the far endpoint,
\* midpoint + (dx, dy) / 2, has offset 0, and firstPoint + (-dy, dx) has
\* offset len.
C22_UnitNormal ==
    (firstPoint # null /\ secondPoint # null /\ firstPoint # secondPoint) =>
        LET dx == secondPoint.x - firstPoint.x
            dy == secondPoint.y - firstPoint.y
            n  == normal(dx, dy)
            r  == Displaced(firstPoint.x, firstPoint.y, dx, dy,
                            calculateOffset(firstPoint, secondPoint,
                                            secondPoint), 0)
        IN  /\ n.lenSq > 0
            /\ n.nx * dx + n.ny * dy = 0
            /\ n.nx * n.nx + n.ny * n.ny = n.lenSq
            /\ r.nx = n.nx /\ r.ny = n.ny /\ r.lenSq = n.lenSq
            /\ calculateOffset(firstPoint, secondPoint, secondPoint).num = 0
            /\ calculateOffset(firstPoint, secondPoint,
                               Point(firstPoint.x - dy, firstPoint.y + dx)).num
                   = 2 * n.lenSq

\* the diagonal from (30, 10) to (10, 30) is being offset
C22_Witness ==
    /\ drawingState = "offset_point"
    /\ firstPoint = Point(30, 10)
    /\ secondPoint = Point(10, 30)
    /\ offsetPoint = Point(10, 10)
    /\ normal(-20, 20) = [nx |-> -20, ny |-> -20, lenSq |-> 800]

C23_SameGeometry(a, b) ==
    /\ a.ext1 = b.ext1
    /\ a.ext2 = b.ext2
    /\ a.line = b.line
    /\ a.textTwice = b.textTwice
    /\ a.rectWidth = b.rectWidth
    /\ a.text = b.text

\* the lists both renderers are compared on: the list of the layer, the list
\* of the editor, and the Dimension the modal would commit from the points
\* set now
C23_Lists ==
    {dimensions, exportDimensions} \cup
    IF firstPoint # null /\ secondPoint # null /\ offsetPoint # null
    THEN {<<newDim([State EXCEPT !.labelInput = <<"5", "0", "m", "m">>])>>}
    ELSE {}

HistoryCap == 1

\* C24 (as claimed): the history stack never holds more snapshots than a
\* fixed cap.
C24_HistoryBounded ==
    Len(dimensionHistory) <= HistoryCap

\* C25: the history holds exactly as many snapshots as the list has
\* Dimensions, snapshot i (from 0) is the first i Dimensions of the list, and
\* an undo removes exactly the most recent Dimension.
C25_HistoryIsPrefixes ==
    /\ Len(dimensionHistory) = Len(dimensions)
    /\ \A i \in DOMAIN dimensionHistory :
           dimensionHistory[i] = SubSeq(dimensions, 1, i - 1)
    /\ dimensions # <<>> =>
           LET t == handleKeyDown(State, "z", TRUE)
           IN  /\ t.dimensions = Front(dimensions)
               /\ t.dimensionHistory = Front(dimensionHistory)
    /\ CommitAccepted(State) =>
           LET t == handleLabelSubmit(State)
           IN  /\ Len(t.dimensionHistory) = Len(t.dimensions)
               /\ \A i \in DOMAIN t.dimensionHistory :
                      t.dimensionHistory[i] = SubSeq(t.dimensions, 1, i - 1)

\* two commits deep, with the modal open on a third
C25_Witness ==
    /\ LayerMounted
    /\ Len(dimensions) = 2
    /\ dimensionHistory = << <<>>, <<dimensions[1]>> >>
    /\ handleKeyDown(State, "z", TRUE).dimensions = <<dimensions[1]>>

\* C26 (as claimed): in AwaitingLabel the first, second and offset point are
\* all set, whatever the order of clicks and moves, so that a submit with a
\* non-blank label commits.
C26_AwaitingLabelHasPoints ==
    drawingState = "awaiting_label" =>
        /\ firstPoint # null
        /\ secondPoint # null
        /\ offsetPoint # null
        /\ Trim(labelInput) # <<>> => CommitAccepted(State)

\* C27: in Idle the three points are unset; outside Idle the first point is
\* set; in SecondPoint the offset point is unset.
C27_PointsFollowPhase ==
    /\ drawingState = "idle" =>
           firstPoint = null /\ secondPoint = null /\ offsetPoint = null
    /\ drawingState # "idle" => firstPoint # null
    /\ drawingState = "second_point" => offsetPoint = null

\* back in Idle after a commit, and on to SecondPoint with the second point
\* captured
C27_Witness ==
    /\ dimensions # <<>>
    /\ drawingState = "second_point"
    /\ firstPoint # null
    /\ secondPoint # null
    /\ offsetPoint = null

\* C28: a pointer move never changes firstPoint; outside SecondPoint it does
\* not change secondPoint; in AwaitingLabel it does not change offsetPoint;
\* in Idle it changes nothing.
C28_MoveFrame ==
    \A p \in WidePointers :
        LET m == handleCanvasMouseMove(State, p)
        IN  /\ m.firstPoint = firstPoint
            /\ drawingState # "second_point" => m.secondPoint = secondPoint
            /\ drawingState = "awaiting_label" => m.offsetPoint = offsetPoint
            /\ drawingState = "idle" => m = State
            /\ m.drawingState = drawingState
            /\ m.dimensions = dimensions
            /\ m.dimensionHistory = dimensionHistory

\* in OffsetPoint with the second point captured, a move to another place
\* takes the offset point there and leaves the second point
C28_Witness ==
    /\ drawingState = "offset_point"
    /\ firstPoint # null
    /\ secondPoint = Point(60, 60)
    /\ offsetPoint # null
    /\ LET m == handleCanvasMouseMove(State, <<10, 10>>)
       IN  /\ m.offsetPoint = Point(10, 10)
           /\ m.offsetPoint # offsetPoint
           /\ m.secondPoint = Point(60, 60)

\* n undo signals in a row, each heard by the listener registered after the
\* render of the one before
RECURSIVE C29_Undos(_, _)
C29_Undos(s, n) ==
    IF n = 0 THEN s ELSE C29_Undos(handleKeyDown(s, "z", TRUE), n - 1)

\* C29: n consecutive undo signals, from the keyboard or from the toolbar
\* button, on a history of depth n or more leave the list equal to the list
\* before the n-th most recent commit and the history shorter by exactly n.
C29_UndoNTimes ==
    LayerMounted =>
        \A n \in 1..Len(dimensionHistory) :
            LET t == C29_Undos(State, n)
                depth == Len(dimensionHistory)
            IN  /\ t.dimensions = dimensionHistory[depth - n + 1]
                /\ t.dimensionHistory = SubSeq(dimensionHistory, 1, depth - n)
                /\ Len(t.dimensionHistory) = depth - n

\* two commits deep in the blueprint mode, where the toolbar button and the
\* keyboard both reach the layer: two undos empty the list
C29_Witness ==
    /\ LayerMounted /\ EditorClickable
    /\ mode = "BLUEPRINT"
    /\ Len(dimensions) = 2
    /\ Len(dimensionHistory) = 2
    /\ C29_Undos(State, 1).dimensions = <<dimensions[1]>>
    /\ C29_Undos(State, 2).dimensions = <<>>
    /\ C29_Undos(State, 2).dimensionHistory = <<>>

\* C30 (as claimed): the export sheet and the live layer are never mounted
\* at the same time.
C30_NeverBothMounted ==
    ~(ExportOpen /\ LayerMounted)

\* C31 (as claimed): whenever the isometric image and the orthographic views
\* are both set, the views come from the blueprint request the image comes
\* from; the result of an earlier request never becomes the views after a
\* reset.
C31_ViewsOfSameRequest ==
    (isometricImage # null /\ orthographicViews # null) =>
        orthographicViews = isometricImage

\* (Math.abs(offset) + extLen) * extDirection of lines 226-228, term by
\* term: the multiple of 1 / (2 sqrt(lenSq)) and the rational part
C32_ExtScalar(off) ==
    LET extDirection == IF off.num >= 0 THEN 1 ELSE -1
    IN  [irr |-> Abs(off.num) * extDirection, rat |-> extLen * extDirection]

\* the point p + n * (o + extra) for the Dimension's normal n and offset o
C32_Along(dim, px, py, extra) ==
    [x |-> px, y |-> py,
     nx |-> -(dim.y2 - dim.y1), ny |-> dim.x2 - dim.x1,
     lenSq |-> (dim.x2 - dim.x1) * (dim.x2 - dim.x1)
                 + (dim.y2 - dim.y1) * (dim.y2 - dim.y1),
     off |-> dim.offset, extra |-> extra]

C32_Drawn(g, dim) ==
    LET dir == IF dim.offset.num >= 0 THEN 1 ELSE -1
        k   == C32_ExtScalar(dim.offset)
    IN  /\ k.irr = dim.offset.num
        /\ k.rat = extLen * dir
        /\ g.line = <<C32_Along(dim, dim.x1, dim.y1, 0),
                      C32_Along(dim, dim.x2, dim.y2, 0)>>
        /\ g.ext1 = <<Point(dim.x1, dim.y1),
                      C32_Along(dim, dim.x1, dim.y1, k.rat)>>
        /\ g.ext2 = <<Point(dim.x2, dim.y2),
                      C32_Along(dim, dim.x2, dim.y2, k.rat)>>
        \* extLen past the dimension line, away from the segment
        /\ Abs(g.ext1[2].extra - g.line[1].extra) = extLen
        /\ Abs(g.ext2[2].extra - g.line[2].extra) = extLen
        /\ dim.offset.num > 0 => g.ext1[2].extra > 0 /\ g.ext2[2].extra > 0
        /\ dim.offset.num < 0 => g.ext1[2].extra < 0 /\ g.ext2[2].extra < 0
        /\ dim.offset.num = 0 => g.ext1[2].extra = extLen
                                  /\ g.ext2[2].extra = extLen
        \* the anchor, doubled, is the sum of the dimension line's ends
        /\ g.textTwice.x = g.line[1].x + g.line[2].x
        /\ g.textTwice.y = g.line[1].y + g.line[2].y
        /\ g.textTwice.nx = g.line[1].nx + g.line[2].nx
        /\ g.textTwice.ny = g.line[1].ny + g.line[2].ny
        /\ g.textTwice.lenSq = 4 * g.line[1].lenSq
        /\ g.textTwice.off = dim.offset
        /\ g.textTwice.extra = 0

\* C32: for a Dimension with distinct endpoints, unit normal n and offset o,
\* both renderers draw the dimension line from p1 + n*o to p2 + n*o, each
\* extension line from p_i to p_i + n*(|o| + extLen)*dir with dir = +1 for
\* o >= 0 and -1 otherwise, that is extLen past the dimension line on its
\* side of the segment, also for o = 0, and anchor the label at the middle
\* of the dimension line.
C32_DimensionGeometry ==
    \A dims \in C23_Lists :
        \A i \in DOMAIN dims :
            ~C20_ZeroLength(dims[i]) =>
                /\ C32_Drawn(liveDimension(dims[i]), dims[i])
                /\ C32_Drawn(exportDimension(dims[i]), dims[i])

\* a Dimension from (10, 10) to (30, 10) whose offset point lies on its
\* line: the offset is 0 and the extension lines end at n * extLen
C32_Witness ==
    /\ drawingState = "awaiting_label"
    /\ firstPoint = Point(10, 10)
    /\ secondPoint = Point(30, 10)
    /\ offsetPoint = Point(30, 10)
    /\ LET dim == newDim(State)
       IN  /\ dim.offset.num = 0
           /\ liveDimension(dim).ext1[2].extra = extLen
           /\ liveDimension(dim).line[1].extra = 0
           /\ C32_Drawn(liveDimension(dim), dim)

\* the corners of the canonical canvas and the points the layer holds
C33_Points ==
    {Point(0, 0), Point(sourceWidth, 0), Point(0, sourceHeight),
     Point(sourceWidth, sourceHeight)}
    \cup ({firstPoint, secondPoint, offsetPoint} \ {null})

\* q, a point of the sheet over q.den, lies in the target rectangle, whose
\* sides are in tenths
C33_Inside(q) ==
    /\ 10 * q.x >= targetRect.x * q.den
    /\ 10 * q.x <= (targetRect.x + targetRect.w) * q.den
    /\ 10 * q.y >= targetRect.y * q.den
    /\ 10 * q.y <= (targetRect.y + targetRect.h) * q.den

\* C33: the export mapping is aspect-fit and centred: the scale is the
\* smaller of the two side ratios, every canonical point of the canvas maps
\* into the target rectangle, the scaled canvas spans the rectangle on at
\* least one axis, and the margins on opposite sides are equal.
C33_AspectFitCentred ==
    LET topLeft     == exportPoint(Point(0, 0))
        bottomRight == exportPoint(Point(sourceWidth, sourceHeight))
        right       == (targetRect.x + targetRect.w) * topLeft.den
        bottom      == (targetRect.y + targetRect.h) * topLeft.den
    IN  /\ imgScale.num * 10 * sourceWidth <= targetRect.w * imgScale.den
        /\ imgScale.num * 10 * sourceHeight <= targetRect.h * imgScale.den
        /\ \A p \in C33_Points :
               /\ p.x \in 0..sourceWidth /\ p.y \in 0..sourceHeight
               /\ C33_Inside(exportPoint(p))
        /\ \/ imgScale.num * 10 * sourceWidth = targetRect.w * imgScale.den
           \/ imgScale.num * 10 * sourceHeight = targetRect.h * imgScale.den
        /\ 10 * topLeft.x - targetRect.x * topLeft.den
               = right - 10 * bottomRight.x
        /\ 10 * topLeft.y - targetRect.y * topLeft.den
               = bottom - 10 * bottomRight.y

\* the layer holds two points on the edge of the canvas, which land on the
\* top and on the bottom side of the rectangle, with a margin left and right
C33_Witness ==
    /\ secondPoint = Point(sourceWidth, 0)
    /\ offsetPoint = Point(0, sourceHeight)
    /\ 10 * exportPoint(secondPoint).y = targetRect.y * exportPoint(secondPoint).den
    /\ 10 * exportPoint(offsetPoint).y
           = (targetRect.y + targetRect.h) * exportPoint(offsetPoint).den
    /\ 10 * exportPoint(offsetPoint).x > targetRect.x * exportPoint(offsetPoint).den
    /\ C33_Inside(exportPoint(secondPoint))

\* the list after the call, seen from the list before it
C34_Called(h, cur, call) ==
    LET t == addToHistory([imageHistory |-> h, currentImage |-> cur],
                          call[1], call[2])
        u == t.imageHistory
    IN  /\ t.currentImage.id = call[1].id
        /\ t.currentImage.snapshotType = call[2]
        /\ IF call[1].id \in HistoryIds(h)
           THEN u = h
           ELSE /\ Last(u).id = call[1].id
                /\ Len(u) = Min(Len(h) + 1, HistoryLimit)
                /\ Front(u) = SubSeq(h, Len(h) - Len(u) + 2, Len(h))

\* C34: after any sequence of addToHistory calls the image history holds at
\* most 20 entries, the most recently added ones in insertion order, and no
\* two entries with the same id; a call with an id already in the list
\* leaves the list unchanged and still makes that image the current image.
C34_ImageHistoryBounded ==
    /\ Len(imageHistory) <= HistoryLimit
    /\ \A i, j \in DOMAIN imageHistory :
           imageHistory[i].id = imageHistory[j].id => i = j
    /\ \A call \in NewImages \cup OldImages :
           C34_Called(imageHistory, currentImage, call)

\* the list is full, its oldest images are gone, and the current image was
\* added again with another snapshot type than it has in the list
C34_Witness ==
    /\ Len(imageHistory) = HistoryLimit
    /\ Head(imageHistory).id = 3
    /\ Last(imageHistory).id = 1
    /\ currentImage.id = 3
    /\ currentImage.snapshotType = "pre-sketch"
    /\ Head(imageHistory).snapshotType = "none"

\* the transient markers, as the claim lists them
C35_Markers == {"500", "503", "Internal error", "overloaded", "429"}

C35_Matches(errorMsg) ==
    \E i \in DOMAIN errorMsg : errorMsg[i] \in C35_Markers

C35_Safe ==
    /\ retry.calls <= retry.given.retries + 1
    /\ retry.calls = Len(retry.waits) + 1
    \* every invocation before the last one failed with a transient error
    /\ \A i \in DOMAIN retry.errors :
           i < retry.calls => C35_Matches(retry.errors[i])
    /\ retry.pc = "returned" =>
           /\ retry.settled = [value |-> retry.calls]
           /\ Len(retry.errors) = retry.calls - 1
    /\ retry.pc = "thrown" =>
           /\ Len(retry.errors) = retry.calls
           /\ retry.settled = [error |-> Last(retry.errors)]
           /\ \/ ~C35_Matches(Last(retry.errors))
              \/ retry.calls = retry.given.retries + 1
    /\ retry.pc = "timeout" => C35_Matches(Last(retry.errors))
    /\ \A i \in DOMAIN retry.waits :
           retry.waits[i] = IF i = 1 THEN retry.given.delay
                            ELSE 2 * retry.waits[i - 1]

C35_Settled == retry.pc \in {"returned", "thrown"}

\* C35: withRetry(operation, retries, delay) terminates and invokes
\* operation at most retries + 1 times; it returns the first successful
\* result; an error that matches no transient marker is rethrown at once,
\* without a retry; with the retries used up the last error is rethrown;
\* and the wait before each retry is twice the wait before.
C35_WithRetry == []C35_Safe /\ <>C35_Settled

\* three retries used up: four invocations, the waits 1000, 2000 and 4000,
\* and the last transient error rethrown
C35_Witness ==
    /\ retry # null
    /\ retry.given = [retries |-> 3, delay |-> 1000]
    /\ retry.pc = "thrown"
    /\ retry.calls = 4
    /\ retry.waits = <<1000, 2000, 4000>>
    /\ retry.settled = [error |-> <<"429", "quota">>]

===========================================================================
